---- MODULE Spec2Model ----
(***************************************************************************)
(* pourover (buster): feed ingestion and throttled publishing.             *)
(*                                                                         *)
(* The datastore is a set of Entry entities addressed by key; every        *)
(* request handler is a process that takes one step per datastore or HTTP  *)
(* round trip (each `yield` of a tasklet), so handlers of different        *)
(* requests interleave at exactly the suspension points of the code.       *)
(* One feed (a child of one user) is modelled; time is a clock of ticks,   *)
(* one tick being one default schedule period.                             *)
(***************************************************************************)
EXTENDS Integers, Sequences, FiniteSets, TLC

\* ----------------------------------------------------------------- bounds
MaxGuids == 2
MaxTime == 2
MaxStories == 2
MaxRequests == 2
MaxFeeds == 3

\* ------------------------------------------------------ program constants
\* constants.py is imported at models.py:24-25; periods are in clock ticks.
DEFAULT_PERIOD_SCHEDULE == 1
MAX_STORIES_PER_PERIOD == 1
\* the schedule period stored in the feed (the feed form's choice), in ticks
STORED_SCHEDULE_PERIOD == 2
\* an unset DateTimeProperty (published_at = None)
None == -1
\* a string property or a key that holds None
Unset == "None"
\* fetch_page_async(25, ...): the page size of drain_queue and delete_for_feed
PAGE_SIZE == 25
\* update_for_feed drains the queue when at least this many guids are all new
DRAIN_THRESHOLD == 5

Guids == 1..MaxGuids
Times == 0..MaxTime
\* two request handlers can be in flight at once (two App Engine requests)
Procs == {"r1", "r2"}
\* outcomes of the external POST: a status code, or "fail" (urlfetch raised,
\* deadline exceeded); 500 stands for every code other than 200, 400, 401
Responses == {"200", "400", "401", "500", "fail"}

VARIABLES
    store,   \* the Entry entities of the feed in the datastore
    feed,    \* the stored Feed entity
    now,     \* datetime.now()
    proc,    \* the local state of each in-flight request handler
    posted,  \* history of the external API: per entry key, the number of 200
             \* responses to posts made by publish_for_feed (sched, counted up
             \* to 2) and whether the manual endpoint obtained one (manual)
    requests \* the number of requests handled so far

vars == <<store, feed, now, proc, posted, requests>>

Min(a, b) == IF a <= b THEN a ELSE b
Max(a, b) == IF a >= b THEN a ELSE b

\* ------------------------------------------------------------ datastore
\* ndb.Key(cls, guid_for_item(item), parent=feed.key): the key id is the guid
KeyForGuid(g) == g

\* Entry(key=..., guid=x, creating=True) with the property defaults, as
\* written by its first put (auto_now_add sets `added`)
NewEntry(g, t) ==
    [key |-> KeyForGuid(g), guid |-> g, creating |-> TRUE, published |-> FALSE,
     overflow |-> FALSE, overflow_reason |-> "DEFAULT", added |-> t,
     published_at |-> None]

\* a write that adds the entity without replacing the one of its key
Insert(s, e) == s \cup {e}

\* put of one entity: the entity stored under its key is replaced
Put(s, e) == {x \in s : x.key # e.key} \cup {e}

RECURSIVE PutMulti(_, _)
PutMulti(s, es) ==
    IF es = {} THEN s
    ELSE LET e == CHOOSE x \in es : TRUE
         IN PutMulti(Put(s, e), es \ {e})

\* key.get(): the set holding the entity stored under key k, if any
Get(s, k) == {x \in s : x.key = k}

\* ---------------------------------------------------------------- queries
\* order(-cls.added): descending `added`; the datastore breaks ties by key
AddedDescending(x, y) ==
    x.added > y.added \/ (x.added = y.added /\ x.key <= y.key)

RECURSIVE OrderByAddedDesc(_)
OrderByAddedDesc(S) ==
    IF S = {} THEN <<>>
    ELSE LET e == CHOOSE x \in S : \A y \in S : AddedDescending(x, y)
         IN <<e>> \o OrderByAddedDesc(S \ {e})

\* the unpublished entries, reservations included
UnpublishedAny(s) == {e \in s : ~e.published}

\* cls.query(cls.published == False, cls.creating == False, ancestor=feed.key)
Unpublished(s) == {e \in s : ~e.published /\ ~e.creating}

\* the query ordered by ascending `added` (a sort order of the wrong sign)
RECURSIVE OrderByAddedAsc(_)
OrderByAddedAsc(S) ==
    IF S = {} THEN <<>>
    ELSE LET e == CHOOSE x \in S : \A y \in S : AddedDescending(y, x)
         IN <<e>> \o OrderByAddedAsc(S \ {e})

earliest_unpublished(s) == OrderByAddedAsc(Unpublished(s))

\* Entry.latest_unpublished(feed): the query in its sort order
latest_unpublished(s) == OrderByAddedDesc(Unpublished(s))

\* a fetch that ignores its limit
FetchAll(q, limit) == q

\* fetch_async(limit)
Fetch(q, limit) == SubSeq(q, 1, Min(limit, Len(q)))

\* Entry.latest_published(feed, since): an inequality filter never matches
\* an entity whose published_at is unset
latest_published(s, since) ==
    {e \in s : e.published /\ ~e.creating
               /\ e.published_at # None /\ e.published_at >= since}

\* ------------------------------------------------------------- the feed
FEED_STATES == {"ACTIVE", "NEEDS_REAUTH"}

\* a publish_for_feed that takes the stored period whatever manual_control is
StoredSchedule(f) == f.schedule_period

minutes_schedule(f) ==
    IF f.manual_control THEN f.schedule_period ELSE DEFAULT_PERIOD_SCHEDULE

max_stories(f) ==
    IF f.manual_control THEN f.max_stories_per_period ELSE MAX_STORIES_PER_PERIOD

\* a budget that ignores what was published in the period
FullBudget(f, published_count) == max_stories(f)

\* max_stories_to_publish = max_stories_to_publish - lastest_published_entries
RemainingBudget(f, published_count) == max_stories(f) - published_count

\* `if max_stories_to_publish > 0 or skip_queue`
ShouldFetch(budget, skip_queue) == budget > 0 \/ skip_queue

\* `max_stories_to_publish or 1` under skip_queue
FetchLimit(budget, skip_queue) ==
    IF skip_queue /\ budget = 0 THEN 1 ELSE budget

\* -------------------------------------------------- handler local state
\* the Feed entity as stored: automatic or manual scheduling (`instagram`
\* holds, next to it, the user_ids of the stored InstagramFeed entities)
FeedConfig(manual_control) ==
    [stored |-> TRUE, status |-> "ACTIVE", manual_control |-> manual_control,
     schedule_period |-> STORED_SCHEDULE_PERIOD,
     max_stories_per_period |-> MaxStories,
     feed_url |-> "feed_url", etag |-> "etag", language |-> "en",
     update_interval |-> "MINUTE_5", parent |-> "user",
     hub |-> Unset, subscribed_at_hub |-> FALSE,
     verify_token |-> Unset, hub_secret |-> Unset,
     instagram |-> {}]

\* the locals of a handler that serves no request
Idle ==
    [op |-> "idle", pc |-> "idle",
     skip_queue |-> FALSE, overflow |-> FALSE,
     guids |-> {}, new_guids |-> {}, old_guids |-> {}, new_entries |-> {},
     now |-> 0, counted |-> 0, budget |-> 0, eligible |-> {},
     entries |-> <<>>, i |-> 0, feed |-> FeedConfig(FALSE),
     resps |-> <<>>, wrote |-> {}, entries_posted |-> 0, raised |-> FALSE,
     more |-> FALSE, cursor |-> {},
     batch |-> <<>>, futures |-> <<>>, outcomes |-> <<>>, completed |-> {},
     success |-> 0, errors |-> 0, deleting |-> {},
     publish |-> FALSE, drain_queue |-> FALSE, status |-> "",
     num_new_items |-> 0,
     data |-> {}, header |-> {}, response |-> Unset, after_402 |-> FALSE,
     user |-> Unset, needs_reauth |-> FALSE]

Init ==
    /\ store = {}
    /\ feed \in {FeedConfig(m) : m \in BOOLEAN}
    /\ now = 0
    /\ proc = [p \in Procs |-> Idle]
    /\ posted = [sched |-> [g \in Guids |-> 0], manual |-> {}]
    /\ requests = 0

\* time passes
Tick ==
    /\ now < MaxTime
    /\ now' = now + 1
    /\ UNCHANGED <<store, feed, proc, posted, requests>>

Local(p) == proc[p]
SetLocal(p, l) == proc' = [proc EXCEPT ![p] = l]

\* the handler p is about to take its step `pc`
At(p, pc) == Local(p).pc = pc

\* a request arrives at a free handler (a request for a feed that is not
\* stored is answered with an error and changes nothing)
Accept(p) ==
    /\ At(p, "idle")
    /\ feed.stored
    /\ requests < MaxRequests
    /\ requests' = requests + 1

\* ------------------------------------------------------------ ingestion
\* prepare_entry_from_item(parsed_feed, item, feed, overflow, overflow_reason,
\* published) followed by entry.populate(**entry_kwargs) with creating=False
Populate(e, overflow, overflow_reason, published) ==
    IF overflow
    THEN [e EXCEPT !.creating = FALSE, !.overflow = TRUE,
                   !.overflow_reason = overflow_reason, !.published = published]
    ELSE [e EXCEPT !.creating = FALSE, !.published = published]

\* a process_parsed_feed that skips the lookup and takes every guid for new
ppf_get_all_new(l, gs) ==
    [l EXCEPT !.pc = "ppf_reserve", !.guids = gs, !.old_guids = {},
              !.new_guids = gs]

\* process_parsed_feed: get_multi_async and the old/new partition
ppf_get(l, gs) ==
    LET old == {g \in gs : Get(store, KeyForGuid(g)) # {}}
    IN [l EXCEPT !.pc = "ppf_reserve", !.guids = gs, !.old_guids = old,
                 !.new_guids = gs \ old]

\* tq_feed_poll -> feed.process_feed -> Entry.update_for_feed(feed): the
\* fetcher raises, answers 304, or returns a parsed feed (the guids of its
\* items), which process_parsed_feed looks up
tq_feed_poll(p) ==
    /\ Accept(p)
    /\ \E status \in {"raise", "304", "200"}, gs \in SUBSET Guids :
         /\ status # "200" => gs = {}
         /\ LET l == [Idle EXCEPT !.op = "poll", !.pc = "done", !.feed = feed,
                                  !.raised = (status = "raise")]
            IN SetLocal(p, IF status = "200" THEN ppf_get(l, gs) ELSE l)
    /\ UNCHANGED <<store, feed, now, posted>>

\* hmac.new(key, msg).hexdigest(): equal digests come from equal keys and
\* equal messages
hmac_hexdigest(key, msg) == [key |-> key, msg |-> msg]

\* the X-Hub-Signature header of a push of body data: absent, or a digest
\* made with the feed's secret or another key, of the body or of another one
\* (the header is not read for a feed without secret)
Headers(f, data) ==
    IF f.hub_secret = Unset THEN {{}}
    ELSE {{}} \cup {{hmac_hexdigest(k, d)} : k \in {f.hub_secret, "other"},
                                               d \in {data, {}}}

\* a feed_push_update that does not compare the signature
SignatureUnchecked(f, header, data) == TRUE

\* feed_push_update: `if feed.hub_secret:` the digest of the body must equal
\* the header
SignatureAccepted(f, header, data) ==
    f.hub_secret = Unset \/ header = {hmac_hexdigest(f.hub_secret, data)}

\* feed_push_update: the hub pushes content (one of the parsed feeds `feeds`);
\* after the signature check it is parsed and looked up, otherwise the
\* handler answers '' at once
push_update_of(p, feeds) ==
    /\ Accept(p)
    /\ \E gs \in feeds :
         \E header \in Headers(feed, gs) :
            LET l == [Idle EXCEPT !.op = "push", !.feed = feed,
                                  !.data = gs, !.header = header]
            IN SetLocal(p, IF SignatureAccepted(feed, header, gs)
                           THEN ppf_get(l, gs)
                           ELSE [l EXCEPT !.pc = "done", !.response = ""])
    /\ UNCHANGED <<store, feed, now, posted>>

\* feed_push_update with a body that carries any items of the source
feed_push_update(p) == push_update_of(p, SUBSET Guids)

\* a process_parsed_feed that writes a reservation for every guid of the
\* parsed feed, the old ones included
ppf_reserve_all(p) ==
    LET l == Local(p)
        new_entries == {NewEntry(g, now) : g \in l.guids}
    IN /\ At(p, "ppf_reserve")
       /\ store' = PutMulti(store, new_entries)
       /\ SetLocal(p, [l EXCEPT !.pc = "ppf_save", !.new_entries = new_entries])
       /\ UNCHANGED <<feed, now, posted, requests>>

\* process_parsed_feed: put_multi_async of the creating=True reservations
ppf_reserve(p) ==
    LET l == Local(p)
        new_entries == {NewEntry(g, now) : g \in l.new_guids}
    IN /\ At(p, "ppf_reserve")
       /\ store' = PutMulti(store, new_entries)
       /\ SetLocal(p, [l EXCEPT !.pc = "ppf_save", !.new_entries = new_entries])
       /\ UNCHANGED <<feed, now, posted, requests>>

\* a drain policy that only counts the fetched guids
ShouldDrainAnyFive(new_guids, old_guids) ==
    Cardinality(new_guids) + Cardinality(old_guids) >= DRAIN_THRESHOLD

\* `len(new_guids + old_guids) >= 5 and len(new_guids) == len(new_guids + old_guids)`
ShouldDrain(new_guids, old_guids) ==
    /\ Cardinality(new_guids) + Cardinality(old_guids) >= DRAIN_THRESHOLD
    /\ Cardinality(new_guids) = Cardinality(new_guids) + Cardinality(old_guids)

\* the caller's step after process_parsed_feed returned: feed_push_update
\* goes on to publish_for_feed; update_for_feed counts the new items,
\* evaluates the drain policy, then publishes `if publish` and drains
\* `if drain_queue`
AfterIngest(l) ==
    IF l.op = "push" THEN [l EXCEPT !.pc = "pff_count"]
    ELSE LET drain_queue == ShouldDrain(l.new_guids, l.old_guids)
         IN [l EXCEPT !.num_new_items = Cardinality(l.new_guids),
                      !.drain_queue = drain_queue,
                      !.pc = IF l.publish THEN "pff_count"
                             ELSE IF drain_queue THEN "drain" ELSE "done"]

\* process_parsed_feed: enrichment (which yields nothing for some items) and
\* the second put_multi_async of every new entry; then the caller's next step
ppf_save(p) ==
    LET l == Local(p)
    IN /\ At(p, "ppf_save")
       /\ \E enriched \in SUBSET l.new_guids :
            LET saved == {IF e.guid \in enriched
                          THEN Populate(e, l.overflow, "BACKLOG", l.overflow)
                          ELSE e : e \in l.new_entries}
            IN /\ store' = PutMulti(store, saved)
               /\ SetLocal(p, AfterIngest([l EXCEPT !.new_entries = saved]))
       /\ UNCHANGED <<feed, now, posted, requests>>

\* ------------------------------------------------------------ publishing
\* the caller's step after publish_for_feed returned: update_for_feed drains
\* `if drain_queue`, every other caller is done
AfterPublish(l) == IF l.drain_queue THEN "drain" ELSE "done"

\* publish_for_feed: `now = datetime.now()` and the count of what was
\* published in the last period
publish_for_feed(l) ==
    LET period_ago == now - minutes_schedule(l.feed)
        counted == Cardinality(latest_published(store, period_ago))
        budget == RemainingBudget(l.feed, counted)
    IN [l EXCEPT !.now = now, !.counted = counted, !.budget = budget,
                 !.pc = IF ShouldFetch(budget, l.skip_queue)
                        THEN "pff_fetch" ELSE AfterPublish(l)]

\* post_all_feeds: Entry.publish_for_feed(feed) for the feed
post_all_feeds(p) ==
    /\ Accept(p)
    /\ SetLocal(p, publish_for_feed([Idle EXCEPT !.op = "post_all", !.feed = feed]))
    /\ UNCHANGED <<store, feed, now, posted>>

\* Entry.publish_for_feed(feed, skip_queue) called on its own, with either
\* value of skip_queue
call_publish_for_feed(p) ==
    /\ Accept(p)
    /\ \E skip_queue \in BOOLEAN :
         SetLocal(p, publish_for_feed(
             [Idle EXCEPT !.op = "publish", !.feed = feed,
                          !.skip_queue = skip_queue]))
    /\ UNCHANGED <<store, feed, now, posted>>

\* feed_push_update: Entry.publish_for_feed(feed, skip_queue=False) after the
\* ingestion
pff_count(p) ==
    /\ At(p, "pff_count")
    /\ SetLocal(p, publish_for_feed(Local(p)))
    /\ UNCHANGED <<store, feed, now, posted, requests>>

\* publish_for_feed: latest_unpublished(feed).fetch_async(max_stories_to_publish)
\* (a negative limit is refused by the datastore with BadArgumentError; the
\* model also allows it to be served with no result)
pff_fetch(p) ==
    LET l == Local(p)
        limit == FetchLimit(l.budget, l.skip_queue)
        latest_entries == Fetch(latest_unpublished(store), limit)
    IN /\ At(p, "pff_fetch")
       /\ \E refused \in (IF limit < 0 THEN BOOLEAN ELSE {FALSE}) :
            SetLocal(p,
                IF refused
                THEN [l EXCEPT !.eligible = Unpublished(store),
                               !.pc = "done", !.raised = TRUE]
                ELSE [l EXCEPT
                        !.entries = latest_entries,
                        !.eligible = Unpublished(store),
                        !.i = IF latest_entries = <<>> THEN 0 ELSE 1,
                        !.pc = IF latest_entries = <<>> THEN AfterPublish(l)
                               ELSE "pe_post"])
       /\ UNCHANGED <<store, feed, now, posted, requests>>

\* the handler's step after publish_entry returned for entry i
AfterPublishEntry(l) ==
    IF l.op = "manual" THEN [l EXCEPT !.pc = "fep_put"]
    ELSE IF l.i < Len(l.entries)
         THEN [l EXCEPT !.entries_posted = @ + 1, !.i = @ + 1, !.pc = "pe_post"]
         ELSE [l EXCEPT !.entries_posted = @ + 1, !.pc = AfterPublish(l)]

\* the external API answers 200 to the post of the entry of key k
RecordPost(h, op, k, r) ==
    IF r # "200" THEN h
    ELSE IF op = "manual" THEN [h EXCEPT !.manual = @ \cup {k}]
    ELSE [h EXCEPT !.sched[k] = Min(@ + 1, 2)]

\* a publish_entry that treats an unexpected status like an accepted post
PostOutcomeNoRaise(r) == IF r = "fail" THEN "return" ELSE "put"

\* a publish_entry that treats a failed POST like an accepted post
PostOutcomeNoReturn(r) == IF r = "500" THEN "raise" ELSE "put"

\* publish_entry: what the response r leads to: the `except` branch returns,
\* an unexpected status raises, and 200, 400 and 401 go on to the put
PostOutcome(r) ==
    CASE r = "fail" -> "return"
      [] r = "500" -> "raise"
      [] OTHER -> "put"

\* publish_entry: the feed is read and the entry is POSTed to the external
\* API, which answers with one of the outcomes R
pe_post(p, R) ==
    LET l == Local(p)
        self == l.entries[l.i]
    IN /\ At(p, "pe_post")
       /\ feed.stored /\ feed.parent # Unset
       /\ \E r \in R :
            LET l1 == [l EXCEPT !.resps = Append(@, r), !.feed = feed]
            IN /\ posted' = RecordPost(posted, l.op, self.key, r)
               /\ SetLocal(p,
                     CASE PostOutcome(r) = "return" -> AfterPublishEntry(l1)
                       [] PostOutcome(r) = "raise" ->
                            [l1 EXCEPT !.pc = "done", !.raised = TRUE]
                       [] OTHER -> [l1 EXCEPT !.pc = "pe_put"])
       /\ UNCHANGED <<store, feed, now, requests>>

\* publish_entry: what is assigned to the entry after a 200, 400 or 401
Published(self, r, t) ==
    IF r = "400"
    THEN [self EXCEPT !.overflow = TRUE, !.overflow_reason = "MALFORMED",
                      !.published = TRUE, !.published_at = t]
    ELSE [self EXCEPT !.published = TRUE, !.published_at = t]

\* publish_entry: the response is interpreted; feed.put_async() on a 401 and
\* self.put_async()
pe_put(p) ==
    LET l == Local(p)
        r == l.resps[Len(l.resps)]
        self == Published(l.entries[l.i], r, now)
    IN /\ At(p, "pe_put")
       /\ feed' = IF r = "401" THEN [l.feed EXCEPT !.status = "NEEDS_REAUTH"]
                   ELSE feed
       /\ store' = Put(store, self)
       /\ SetLocal(p, AfterPublishEntry(
               [l EXCEPT !.entries[l.i] = self, !.wrote = @ \cup {self.key}]))
       /\ UNCHANGED <<now, posted, requests>>

\* ---------------------------------------------------------------- drain
\* start_cursor: the results that come, in the order of the query, after the
\* last entity of the previous page (cursor is empty for the first page)
AfterCursor(S, cursor) ==
    {e \in S : \A c \in cursor : ~AddedDescending(e, c)}

\* Entry.drain_queue(feed) called on its own
call_drain_queue(p) ==
    /\ Accept(p)
    /\ SetLocal(p, [Idle EXCEPT !.op = "drain", !.pc = "drain", !.feed = feed])
    /\ UNCHANGED <<store, feed, now, posted>>

\* drain_queue: latest_unpublished(feed).fetch_page_async(25, start_cursor)
drain_fetch(p) ==
    LET l == Local(p)
        q == OrderByAddedDesc(AfterCursor(Unpublished(store), l.cursor))
        page == Fetch(q, PAGE_SIZE)
    IN /\ At(p, "drain")
       /\ SetLocal(p, [l EXCEPT
               !.entries = page, !.more = Len(q) > PAGE_SIZE,
               !.cursor = IF page = <<>> THEN @ ELSE {page[Len(page)]},
               !.i = IF page = <<>> THEN 0 ELSE 1,
               !.pc = IF page = <<>> THEN "done" ELSE "drain_put"])
       /\ UNCHANGED <<store, feed, now, posted, requests>>

\* drain_queue: what is assigned to an entry of the page
Drained(entry) ==
    [entry EXCEPT !.overflow = TRUE, !.published = TRUE,
                  !.overflow_reason = "FEED_OVERFLOW"]

\* drain_queue: entry.put_async() for entry i of the page, then the next
\* entry, the next page or the end
drain_put(p) ==
    LET l == Local(p)
        entry == Drained(l.entries[l.i])
    IN /\ At(p, "drain_put")
       /\ store' = Put(store, entry)
       /\ SetLocal(p, [l EXCEPT
               !.entries[l.i] = entry, !.wrote = @ \cup {entry.key},
               !.i = IF l.i < Len(l.entries) THEN @ + 1 ELSE @,
               !.pc = IF l.i < Len(l.entries) THEN "drain_put"
                      ELSE IF l.more THEN "drain" ELSE "done"])
       /\ UNCHANGED <<feed, now, posted, requests>>

\* feed_entry_publish: the manual endpoint reads the entry by key
feed_entry_publish(p) ==
    /\ Accept(p)
    /\ \E entry \in store :
         SetLocal(p, [Idle EXCEPT !.op = "manual", !.pc = "pe_post",
                                  !.entries = <<entry>>, !.i = 1, !.feed = feed])
    /\ UNCHANGED <<store, feed, now, posted>>

\* feed_entry_publish: entry.overflow = False; entry.put()
fep_put(p) ==
    LET l == Local(p)
        entry == [l.entries[1] EXCEPT !.overflow = FALSE]
    IN /\ At(p, "fep_put")
       /\ store' = Put(store, entry)
       /\ SetLocal(p, [l EXCEPT !.entries[1] = entry, !.pc = "done"])
       /\ UNCHANGED <<feed, now, posted, requests>>

\* ----------------------------------------------------------- deletion
\* the default order of a query without order(): by key
RECURSIVE OrderByKey(_)
OrderByKey(S) ==
    IF S = {} THEN <<>>
    ELSE LET e == CHOOSE x \in S : \A y \in S : x.key <= y.key
         IN <<e>> \o OrderByKey(S \ {e})

\* Entry.latest_for_feed(feed): cls.query(cls.creating == False, ancestor=feed.key)
latest_for_feed(s) == {e \in s : ~e.creating}

\* delete_feed: the feed is read, then Entry.delete_for_feed(feed)
delete_feed(p) ==
    /\ Accept(p)
    /\ SetLocal(p, [Idle EXCEPT !.op = "delete", !.pc = "del_fetch", !.feed = feed])
    /\ UNCHANGED <<store, feed, now, posted>>

\* delete_for_feed: a page of latest_for_feed is fetched and
\* ndb.delete_multi_async(entries_keys) is issued for it, without waiting
del_fetch(p) ==
    LET l == Local(p)
        q == OrderByKey({e \in latest_for_feed(store) :
                            \A c \in l.cursor : e.key > c.key})
        entries == Fetch(q, PAGE_SIZE)
    IN /\ At(p, "del_fetch")
       /\ SetLocal(p, [l EXCEPT
               !.cursor = IF entries = <<>> THEN @ ELSE {entries[Len(entries)]},
               !.deleting = @ \cup {entries[k].key : k \in 1..Len(entries)},
               !.more = Len(q) > PAGE_SIZE,
               !.pc = IF Len(q) > PAGE_SIZE THEN "del_fetch" ELSE "del_feed"])
       /\ UNCHANGED <<store, feed, now, posted, requests>>

\* the datastore carries out the deletes that were issued, at any time before
\* the request ends
delete_multi_done(p) ==
    LET l == Local(p)
    IN /\ l.deleting # {}
       /\ store' = {e \in store : e.key \notin l.deleting}
       /\ SetLocal(p, [l EXCEPT !.deleting = {}])
       /\ UNCHANGED <<feed, now, posted, requests>>

\* delete_feed: feed.key.delete_async(), and the view answers; in
\* publish_entry: feed.key.delete(), and publish_entry returns
del_feed(p) ==
    /\ At(p, "del_feed")
    /\ feed' = [feed EXCEPT !.stored = FALSE]
    /\ SetLocal(p, IF Local(p).op = "delete"
                   THEN [Local(p) EXCEPT !.pc = "done"]
                   ELSE AfterPublishEntry(Local(p)))
    /\ UNCHANGED <<store, now, posted, requests>>

\* publish_entry: the feed is read and has no owning user (`if not
\* user_parent`): Entry.delete_for_feed(feed) is started
pe_orphan(p) ==
    /\ At(p, "pe_post")
    /\ feed.stored /\ feed.parent = Unset
    /\ SetLocal(p, [Local(p) EXCEPT !.feed = feed, !.cursor = {},
                                    !.pc = "del_fetch"])
    /\ UNCHANGED <<store, feed, now, posted, requests>>

\* publish_entry: the feed is read and is not there (get_async returns
\* None, and `feed.key` raises)
pe_nofeed(p) ==
    /\ At(p, "pe_post")
    /\ ~feed.stored
    /\ SetLocal(p, [Local(p) EXCEPT !.pc = "done", !.raised = TRUE])
    /\ UNCHANGED <<store, feed, now, posted, requests>>

\* the handler returns its response and is free for the next request
Return(p) ==
    /\ At(p, "done")
    /\ Local(p).deleting = {}
    /\ SetLocal(p, Idle)
    /\ UNCHANGED <<store, feed, now, posted, requests>>

\* One request at a time; the external API answers anything.
Next ==
    \/ Tick
    \/ tq_feed_poll("r1")
    \/ feed_push_update("r1")
    \/ ppf_reserve("r1")
    \/ ppf_save("r1")
    \/ post_all_feeds("r1")
    \/ pff_count("r1")
    \/ pff_fetch("r1")
    \/ pe_post("r1", Responses)
    \/ pe_put("r1")
    \/ feed_entry_publish("r1")
    \/ fep_put("r1")
    \/ delete_feed("r1")
    \/ del_fetch("r1")
    \/ delete_multi_done("r1")
    \/ del_feed("r1")
    \/ Return("r1")

Spec == Init /\ [][Next]_vars

\* Two requests, one per handler, overlap within one tick of the clock: the
\* handlers interleave at their suspension points and the external API accepts
\* every post.
NextRace ==
    \E p \in Procs :
        \/ tq_feed_poll(p)
        \/ feed_push_update(p)
        \/ ppf_reserve(p)
        \/ ppf_save(p)
        \/ post_all_feeds(p)
        \/ pff_count(p)
        \/ pff_fetch(p)
        \/ pe_post(p, {"200"})
        \/ pe_put(p)
        \/ feed_entry_publish(p)
        \/ fep_put(p)

SpecRace == Init /\ [][NextRace]_vars

\* One request at a time; the external API accepts every post.
NextOk ==
    \/ Tick
    \/ tq_feed_poll("r1")
    \/ feed_push_update("r1")
    \/ ppf_reserve("r1")
    \/ ppf_save("r1")
    \/ post_all_feeds("r1")
    \/ pff_count("r1")
    \/ pff_fetch("r1")
    \/ pe_post("r1", {"200"})
    \/ pe_put("r1")
    \/ feed_entry_publish("r1")
    \/ fep_put("r1")
    \/ Return("r1")

SpecOk == Init /\ [][NextOk]_vars

\* ---------------------------------------------------- batches of feeds
\* The poll task and the post-all job handle a batch of feeds: a tasklet is
\* started per feed and the futures are awaited one after the other. What a
\* feed's tasklet does is modelled above; here it returns or raises.
Batches == UNION {[1..n -> BOOLEAN] : n \in 1..MaxFeeds}

\* the positions of the batch whose feed was found, in order
FoundFeeds(batch) ==
    LET Found(k) == batch[k]
    IN SelectSeq([k \in 1..Len(batch) |-> k], Found)

\* the loop over the futures lets a raising future end the whole loop
AwaitFutureUncaught(l, outcome) ==
    IF outcome = "ok" /\ l.i < Len(l.futures)
    THEN [l EXCEPT !.outcomes = Append(@, outcome),
                   !.completed = @ \cup {l.futures[l.i]},
                   !.success = @ + 1, !.i = @ + 1]
    ELSE [l EXCEPT !.outcomes = Append(@, outcome),
                   !.completed = @ \cup {l.futures[l.i]},
                   !.success = IF outcome = "ok" THEN @ + 1 ELSE @,
                   !.raised = (outcome = "raise"), !.pc = "done"]

\* `try: ... = yield future; success += 1  except: errors += 1` for future i,
\* then the next future or the end of the batch
AwaitFuture(l, outcome) ==
    LET l1 == [l EXCEPT !.outcomes = Append(@, outcome),
                        !.completed = @ \cup {l.futures[l.i]},
                        !.success = IF outcome = "ok" THEN @ + 1 ELSE @,
                        !.errors = IF outcome = "raise" THEN @ + 1 ELSE @]
    IN IF l.i < Len(l.futures) THEN [l1 EXCEPT !.i = @ + 1]
       ELSE [l1 EXCEPT !.pc = "done"]

\* tq_feed_poll: get_multi_async of the keys; a key without feed is counted
\* as an error, a tasklet (feed.process_feed) is started for every other
poll_batch(p) ==
    /\ Accept(p)
    /\ \E batch \in Batches :
         LET futures == FoundFeeds(batch)
         IN SetLocal(p, [Idle EXCEPT
                !.op = "poll_batch", !.feed = feed,
                !.batch = batch, !.futures = futures,
                !.errors = Len(batch) - Len(futures),
                !.i = IF futures = <<>> THEN 0 ELSE 1,
                !.pc = IF futures = <<>> THEN "done" ELSE "poll_await"])
    /\ UNCHANGED <<store, feed, now, posted>>

\* tq_feed_poll: the loop that awaits the futures
poll_await(p) ==
    /\ At(p, "poll_await")
    /\ \E outcome \in {"ok", "raise"} :
         SetLocal(p, AwaitFuture(Local(p), outcome))
    /\ UNCHANGED <<store, feed, now, posted, requests>>

\* post_all_feeds: a publish_for_feed tasklet is started for every feed of
\* the two queries (there may be none)
post_batch(p) ==
    /\ Accept(p)
    /\ \E n \in 0..MaxFeeds :
         LET batch == [k \in 1..n |-> TRUE]
         IN SetLocal(p, [Idle EXCEPT
                !.op = "post_batch", !.feed = feed,
                !.batch = batch, !.futures = FoundFeeds(batch),
                !.i = IF n = 0 THEN 0 ELSE 1,
                !.pc = IF n = 0 THEN "done" ELSE "post_await"])
    /\ UNCHANGED <<store, feed, now, posted>>

\* post_all_feeds: the loop that awaits the futures
post_await(p) ==
    /\ At(p, "post_await")
    /\ \E outcome \in {"ok", "raise"} :
         SetLocal(p, AwaitFuture(Local(p), outcome))
    /\ UNCHANGED <<store, feed, now, posted, requests>>

NextBatch ==
    \/ poll_batch("r1")
    \/ poll_await("r1")
    \/ post_batch("r1")
    \/ post_await("r1")
    \/ Return("r1")

SpecBatch == Init /\ [][NextBatch]_vars

\* ------------------------------------------- one call on a stored feed
\* The feed as earlier requests can have left it: per guid, no entry, or an
\* entry ingested at time 0 that is a reservation or not, and unpublished or
\* published (by a publish cycle or by the manual endpoint) at time 0 or now.
CallGuids == 1..(MaxGuids + 1)

EntryShapes == BOOLEAN \X BOOLEAN \X {None, 0, MaxTime}

EntryOfShape(g, shape) ==
    [NewEntry(g, 0) EXCEPT !.creating = shape[2],
                           !.published = (shape[3] # None),
                           !.published_at = shape[3]]

StoreOfShapes(f) == {EntryOfShape(g, f[g]) : g \in {x \in CallGuids : f[x][1]}}

InitCall ==
    /\ \E f \in [CallGuids -> EntryShapes] : store = StoreOfShapes(f)
    /\ feed \in {FeedConfig(m) : m \in BOOLEAN}
    /\ now = MaxTime
    /\ proc = [p \in Procs |-> Idle]
    /\ posted = [sched |-> [g \in CallGuids |-> 0], manual |-> {}]
    /\ requests = MaxRequests - 1

\* One request, the external API answers anything.
NextCall ==
    \/ call_publish_for_feed("r1")
    \/ pff_fetch("r1")
    \/ pe_post("r1", Responses)
    \/ pe_put("r1")
    \/ feed_entry_publish("r1")
    \/ fep_put("r1")
    \/ call_drain_queue("r1")
    \/ drain_fetch("r1")
    \/ drain_put("r1")

SpecCall == InitCall /\ [][NextCall]_vars

\* ------------------------------------------------- update_for_feed
\* what a fetch that is not a 304 says about the feed: nothing new, a
\* permanent redirect, another ETag, or another language
FetchMeta == {"same", "redirect", "etag", "language"}

\* update_for_feed: the etag/redirect/language bookkeeping on the feed
UpdateMetadata(f, meta) ==
    CASE meta = "redirect" -> [f EXCEPT !.feed_url = "final_url"]
      [] meta = "etag" -> [f EXCEPT !.etag = "etag2"]
      [] meta = "language" -> [f EXCEPT !.language = "fr"]
      [] OTHER -> f

\* the guids a parsed feed can carry: a run of consecutive items of the source
UpdateGuids == 1..(DRAIN_THRESHOLD + 1)

ParsedFeeds == {a..b : a \in UpdateGuids, b \in UpdateGuids}

\* Entry.update_for_feed(feed, publish, skip_queue, overflow) called with any
\* flags: the fetch raises, answers 304, or returns a parsed feed; in the
\* last case the feed is updated and saved `if modified_feed` and
\* process_parsed_feed looks the guids up. A permanent redirect turns
\* `publish` off.
call_update_for_feed(p) ==
    /\ Accept(p)
    /\ \E publish \in BOOLEAN, skip_queue \in BOOLEAN, overflow \in BOOLEAN,
          status \in {"raise", "304", "200"}, meta \in FetchMeta,
          gs \in ParsedFeeds :
         /\ status # "200" => (gs = {} /\ meta = "same")
         /\ feed' = IF status = "200" THEN UpdateMetadata(feed, meta) ELSE feed
         /\ LET l == [Idle EXCEPT
                       !.op = "update", !.feed = feed', !.status = status,
                       !.publish = publish /\ meta # "redirect",
                       !.skip_queue = skip_queue, !.overflow = overflow]
            IN SetLocal(p,
                 CASE status = "raise" -> [l EXCEPT !.pc = "done", !.raised = TRUE]
                   [] status = "304" ->
                        [l EXCEPT !.pc = IF l.publish THEN "pff_count" ELSE "done"]
                   [] OTHER -> ppf_get(l, gs))
    /\ UNCHANGED <<store, now, posted>>

\* Feed.for_interval(interval_id): the stored feed is selected by the
\* scheduled poll of that interval
for_interval(f, interval_id) ==
    f.stored /\ f.update_interval = interval_id /\ f.status = "ACTIVE"

\* a tq_feed_poll that counts a raising future as a success
CollectFutureAsSuccess(l) ==
    AwaitFuture([l EXCEPT !.futures = <<1>>, !.i = 1], "ok")

\* tq_feed_poll: the future of the feed's process_feed tasklet is awaited
\* inside try/except and counted
CollectFuture(l) ==
    AwaitFuture([l EXCEPT !.futures = <<1>>, !.i = 1],
                IF l.raised THEN "raise" ELSE "ok")

\* tq_feed_poll: the loop over the futures reaches the feed's future once its
\* tasklet has returned or raised
poll_collect(p) ==
    LET l == Local(p)
    IN /\ At(p, "done") /\ l.op = "poll" /\ l.completed = {}
       /\ SetLocal(p, CollectFuture(l))
       /\ UNCHANGED <<store, feed, now, posted, requests>>

\* the feed as an earlier poll without flags can have left it: the first
\* items of the source ingested at time 0, none of them published yet
Ingested(n) ==
    {[NewEntry(g, 0) EXCEPT !.creating = FALSE] : g \in 1..n}

InitUpdate ==
    /\ store \in {Ingested(n) : n \in 0..MaxGuids}
    /\ feed \in {FeedConfig(m) : m \in BOOLEAN}
    /\ now = MaxTime
    /\ proc = [p \in Procs |-> Idle]
    /\ posted = [sched |-> [g \in UpdateGuids |-> 0], manual |-> {}]
    /\ requests = MaxRequests - 1

\* One call of update_for_feed, on its own with any flags or from the poll
\* task; the external API accepts every post.
NextUpdate ==
    \/ call_update_for_feed("r1")
    \/ tq_feed_poll("r1")
    \/ poll_collect("r1")
    \/ ppf_reserve("r1")
    \/ ppf_save("r1")
    \/ pff_count("r1")
    \/ pff_fetch("r1")
    \/ pe_post("r1", {"200"})
    \/ pe_put("r1")
    \/ drain_fetch("r1")
    \/ drain_put("r1")

SpecUpdate == InitUpdate /\ [][NextUpdate]_vars

\* ------------------------------------------------ a feed without owner
\* A feed entity whose key has no parent (no src code creates one, yet
\* publish_entry provides for it), with entries as earlier requests can
\* have left them.
InitOrphan ==
    /\ \E f \in [CallGuids -> EntryShapes] : store = StoreOfShapes(f)
    /\ feed \in {[FeedConfig(m) EXCEPT !.parent = Unset] : m \in BOOLEAN}
    /\ now = MaxTime
    /\ proc = [p \in Procs |-> Idle]
    /\ posted = [sched |-> [g \in CallGuids |-> 0], manual |-> {}]
    /\ requests = MaxRequests - 1

\* One run of the post-all job on the feed.
NextOrphan ==
    \/ post_all_feeds("r1")
    \/ pff_fetch("r1")
    \/ pe_orphan("r1")
    \/ del_fetch("r1")
    \/ delete_multi_done("r1")
    \/ del_feed("r1")
    \/ pe_nofeed("r1")

SpecOrphan == InitOrphan /\ [][NextOrphan]_vars

\* ------------------------------------------------------------- the hub
\* Python truthiness of an optional string
Truthy(x) == x \notin {Unset, ""}

\* values of the hub.verify_token argument: absent, empty, the feed's, another
VerifyTokens == {Unset, "", "token", "wrong"}

\* feed_subscribe with a verification that also fails on an empty token
TokenRefusedIfPresent(f, verify_token) ==
    verify_token # Unset /\ verify_token # f.verify_token

\* feed_subscribe: `if verify_token and verify_token != feed.verify_token`
TokenRefused(f, verify_token) ==
    Truthy(verify_token) /\ verify_token # f.verify_token

\* feed_subscribe: feed.subscribed_at_hub = True and the 15 minute interval
Subscribed(f) ==
    [f EXCEPT !.subscribed_at_hub = TRUE, !.update_interval = "MINUTE_15"]

\* feed_subscribe: the hub's verification GET with hub.mode=subscribe; the
\* view does not suspend, it reads, answers and (when verified) writes the
\* feed at once
feed_subscribe(p) ==
    /\ Accept(p)
    /\ \E verify_token \in VerifyTokens :
         LET l == [Idle EXCEPT !.op = "subscribe", !.pc = "done", !.feed = feed,
                               !.data = {verify_token}]
         IN IF TokenRefused(feed, verify_token)
            THEN /\ SetLocal(p, [l EXCEPT !.response = "Failed Verification 400"])
                 /\ feed' = feed
            ELSE /\ SetLocal(p, [l EXCEPT !.response = "challenge",
                                          !.feed = Subscribed(feed)])
                 /\ feed' = Subscribed(feed)
    /\ UNCHANGED <<store, now, posted>>

\* try_push_resub: Feed.query(Feed.hub != None, Feed.subscribed_at_hub == False)
unsubscribed_feeds(f) ==
    f.stored /\ f.hub # Unset /\ ~f.subscribed_at_hub

\* try_push_resub (a cron job): a subscribe_to_hub tasklet is started for the
\* feed if the query returns it; at most MaxRequests subscribe requests are
\* sent in all
try_push_resub(p) ==
    /\ At(p, "idle")
    /\ posted.subscribes < MaxRequests
    /\ LET l == [Idle EXCEPT !.op = "resub", !.feed = feed,
                             !.after_402 = posted.refused]
       IN SetLocal(p, IF unsubscribed_feeds(feed)
                      THEN [l EXCEPT !.pc = "sub_post", !.futures = <<1>>, !.i = 1]
                      ELSE [l EXCEPT !.pc = "done"])
    /\ UNCHANGED <<store, feed, now, posted, requests>>

\* subscribe_to_hub: the subscribe request is POSTed to the hub, which
\* accepts it, answers 402, or cannot be reached; try_push_resub counts the
\* future unless a 402 has the feed saved first
sub_post(p) ==
    LET l == Local(p)
    IN /\ At(p, "sub_post")
       /\ posted' = [posted EXCEPT !.subscribes = @ + 1]
       /\ \E r \in {"202", "402", "fail"} :
            LET l1 == [l EXCEPT !.resps = Append(@, r)]
            IN SetLocal(p,
                 CASE r = "402" -> [l1 EXCEPT !.pc = "sub_put"]
                   [] r = "fail" -> AwaitFuture(l1, "raise")
                   [] OTHER -> AwaitFuture(l1, "ok"))
       /\ UNCHANGED <<store, feed, now, requests>>

\* subscribe_to_hub: what a 402 assigns to the feed
HubCleared(self) == [self EXCEPT !.hub = Unset]

\* subscribe_to_hub: after a 402, self.hub = None and self.put_async()
sub_put(p) ==
    LET l == Local(p)
    IN /\ At(p, "sub_put")
       /\ feed' = HubCleared(l.feed)
       /\ posted' = [posted EXCEPT !.refused = TRUE]
       /\ SetLocal(p, AwaitFuture([l EXCEPT !.feed = HubCleared(l.feed)], "ok"))
       /\ UNCHANGED <<store, now, requests>>

\* a feed for which process_new_feed has discovered a hub, with or without
\* hub secret; `posted` also holds the number of subscribe requests the hub
\* has received and whether the clearing after a 402 was saved
HubFeed(secret) ==
    [FeedConfig(FALSE) EXCEPT !.hub = "hub", !.hub_secret = secret,
                              !.verify_token = "token"]

InitHub ==
    /\ store = {}
    /\ feed \in {HubFeed(secret) : secret \in {Unset, "secret"}}
    /\ now = 0
    /\ proc = [p \in Procs |-> Idle]
    /\ posted = [sched |-> [g \in Guids |-> 0], manual |-> {},
                 subscribes |-> 0, refused |-> FALSE]
    /\ requests = 0

\* One request at a time: the hub's verification and pushes and the
\* resubscription sweep; the external API accepts every post.
NextHub ==
    \/ feed_subscribe("r1")
    \/ try_push_resub("r1")
    \/ sub_post("r1")
    \/ sub_put("r1")
    \/ feed_push_update("r1")
    \/ ppf_reserve("r1")
    \/ ppf_save("r1")
    \/ pff_count("r1")
    \/ pff_fetch("r1")
    \/ pe_post("r1", {"200"})
    \/ pe_put("r1")
    \/ Return("r1")

SpecHub == InitHub /\ [][NextHub]_vars

\* the feed with a hub, holding entries that an earlier poll ingested
InitResub ==
    /\ store \in {Ingested(n) : n \in 1..MaxGuids}
    /\ feed = HubFeed(Unset)
    /\ now = 0
    /\ proc = [p \in Procs |-> Idle]
    /\ posted = [sched |-> [g \in Guids |-> 0], manual |-> {},
                 subscribes |-> 0, refused |-> FALSE]
    /\ requests = 0

\* The resubscription sweep overlaps with the post-all job, to whose posts
\* the external API answers 200 or 401.
NextResub ==
    \E p \in Procs :
        \/ try_push_resub(p)
        \/ sub_post(p)
        \/ sub_put(p)
        \/ post_all_feeds(p)
        \/ pff_fetch(p)
        \/ pe_post(p, {"200", "401"})
        \/ pe_put(p)
        \/ Return(p)

SpecResub == InitResub /\ [][NextResub]_vars

\* ------------------------------------------------------ Instagram push
\* the Instagram users; the key id of an InstagramFeed is its user_id
InstagramUsers == 1..MaxFeeds

\* InstagramFeed.query(InstagramFeed.user_id.IN(user_ids)), keys only
InstagramFeedKeys(f, user_ids) == f.instagram \cap user_ids

\* fetch_page on the IN query: the datastore library runs an IN over several
\* values as several queries, and serves those page by page (with cursors)
\* only when they are ordered by key, which this query is not; it answers
\* BadArgumentError otherwise. The model lets such a query be served or
\* refused.
PagedInOutcomes(user_ids) ==
    IF Cardinality(user_ids) > 1 THEN {"served", "refused"} ELSE {"served"}

\* instagram_push_update: the body lists the users that have new media; the
\* signature is checked, the matching feeds' keys are collected page by
\* page, and (next step) a poll task is enqueued if there is any key
instagram_push_update(p) ==
    /\ Accept(p)
    /\ \E user_ids \in SUBSET InstagramUsers :
         \E header \in {{}} \cup {{hmac_hexdigest(k, user_ids)} :
                                      k \in {"instagram_client_secret", "other"}} :
         \E outcome \in PagedInOutcomes(user_ids) :
            LET l == [Idle EXCEPT !.op = "instagram", !.feed = feed,
                                  !.data = user_ids, !.header = header]
                keys == InstagramFeedKeys(feed, user_ids)
            IN SetLocal(p,
                 IF header # {hmac_hexdigest("instagram_client_secret", user_ids)}
                 THEN [l EXCEPT !.pc = "done", !.response = ""]
                 ELSE IF outcome = "refused"
                 THEN [l EXCEPT !.pc = "done", !.raised = TRUE]
                 ELSE IF keys = {}
                 THEN [l EXCEPT !.pc = "done", !.response = "ok"]
                 ELSE [l EXCEPT !.pc = "add_task", !.guids = keys])
    /\ UNCHANGED <<store, feed, now, posted>>

\* instagram_push_update: Queue('poll').add_async(Task(... params={'keys': keys}))
add_task(p) ==
    LET l == Local(p)
    IN /\ At(p, "add_task")
       /\ posted' = [posted EXCEPT !.tasks = Append(@, l.guids)]
       /\ SetLocal(p, [l EXCEPT !.pc = "done", !.response = "ok"])
       /\ UNCHANGED <<store, feed, now, requests>>

\* some InstagramFeed entities are stored, next to a feed with entries;
\* `posted` also holds the tasks of the poll queue
InitInstagram ==
    /\ store \in {Ingested(n) : n \in 0..MaxGuids}
    /\ feed \in {[FeedConfig(FALSE) EXCEPT !.instagram = S] :
                    S \in SUBSET InstagramUsers}
    /\ now = 0
    /\ proc = [p \in Procs |-> Idle]
    /\ posted = [sched |-> [g \in Guids |-> 0], manual |-> {}, tasks |-> <<>>]
    /\ requests = MaxRequests - 1

\* One push from Instagram.
NextInstagram ==
    \/ instagram_push_update("r1")
    \/ add_task("r1")

SpecInstagram == InitInstagram /\ [][NextInstagram]_vars

\* ------------------------------------------------ repeated publish cycles
\* Periods follow one another without end. The clock is kept relative: when a
\* period has passed, `now` stays where it is and every stored time moves one
\* period into the past (an `added` that is older than the horizon stays at
\* the horizon). An entry published before the feed's window is forgotten:
\* no query of publish_for_feed returns it any more, and its guid then stands
\* for the guid of an item the source has not carried before.
Aged(e) ==
    [e EXCEPT !.added = Max(@ - 1, 0),
              !.published_at = IF @ = None THEN None ELSE @ - 1]

OutOfWindow(e) ==
    /\ e.published /\ e.published_at # None
    /\ e.published_at < now - minutes_schedule(feed)

\* a period passes between two requests; at most MaxRequests requests are
\* served per period
Elapse ==
    /\ \A p \in Procs : At(p, "idle")
    /\ store' = {x \in {Aged(e) : e \in store} : ~OutOfWindow(x)}
    /\ requests' = 0
    /\ UNCHANGED <<feed, now, proc, posted>>

InitCycle ==
    /\ store = {}
    /\ feed \in {FeedConfig(m) : m \in BOOLEAN}
    /\ now = MaxTime
    /\ proc = [p \in Procs |-> Idle]
    /\ posted = [sched |-> [g \in Guids |-> 0], manual |-> {}]
    /\ requests = 0

\* a request that was accepted runs to its end
ServeCycle ==
    \/ ppf_reserve("r1")
    \/ ppf_save("r1")
    \/ pff_fetch("r1")
    \/ pe_post("r1", {"200"})
    \/ pe_put("r1")
    \/ Return("r1")

NextCycle ==
    \/ Elapse
    \/ tq_feed_poll("r1")
    \/ post_all_feeds("r1")
    \/ ServeCycle

\* the periods pass, the post-all job (a cron job) fires again and again, and
\* a handler that runs is not suspended forever
FairCycle ==
    /\ WF_vars(Elapse)
    /\ SF_vars(post_all_feeds("r1"))
    /\ WF_vars(ServeCycle)

SpecCycle == InitCycle /\ [][NextCycle]_vars /\ FairCycle

\* ------------------------------------------------------------------ claims
\* the handler runs publish_for_feed
Publishing(l) == l.op \in {"post_all", "push", "publish"}

\* publish_for_feed has counted (and so has a budget)
Counted(l) ==
    Publishing(l) /\ l.pc \in {"pff_fetch", "pe_post", "pe_put", "done"}

\* publish_for_feed has fetched latest_entries
Fetched(l) ==
    /\ Publishing(l) /\ l.pc \in {"pe_post", "pe_put", "done"}
    /\ ShouldFetch(l.budget, l.skip_queue)

\* the keys of the entries publish_for_feed selected
Selected(l) == {l.entries[k].key : k \in 1..Len(l.entries)}

\* the entity stored under key k is e-like: some stored entity of that key
\* satisfies P
Stored(k) == {x \in store : x.key = k}

LastResponse(l, r) == Len(l.resps) > 0 /\ l.resps[Len(l.resps)] = r

\* C2 (as claimed): when the external API answers 401 to a post made by
\* publish_for_feed, the feed is marked as needing reauthorization and the
\* entry is left as it was: unpublished, without a publication time and still
\* returned by latest_unpublished.
C2_UnauthorizedLeavesEntry ==
    \A p \in Procs :
        LET l == Local(p)
        IN (Publishing(l) /\ l.pc \in {"pe_post", "done"} /\ LastResponse(l, "401")) =>
             /\ feed.status = "NEEDS_REAUTH"
             /\ \A x \in Stored(l.entries[Len(l.resps)].key) :
                  /\ ~x.published
                  /\ x.published_at = None
                  /\ x \in Unpublished(store)

\* C3 (as claimed): an entry that is published and not overflow was accepted,
\* with a 200, by the external API.
C3_PublishedWasAccepted ==
    \A e \in store :
        (e.published /\ ~e.overflow) =>
            (posted.sched[e.key] > 0 \/ e.key \in posted.manual)

\* C4 (as claimed): once an operation that received a 400 for an entry
\* (publish_for_feed or the manual endpoint) has completed, the entry is
\* published, overflow, of reason MALFORMED, and not returned by
\* latest_unpublished.
C4_MalformedIsTerminal ==
    \A p \in Procs :
        LET l == Local(p)
        IN (l.pc = "done" /\ l.op \in {"post_all", "push", "manual"}) =>
             \A k \in 1..Len(l.resps) :
                l.resps[k] = "400" =>
                    \A x \in Stored(l.entries[k].key) :
                        /\ x.published
                        /\ x.overflow
                        /\ x.overflow_reason = "MALFORMED"
                        /\ x \notin Unpublished(store)

\* C5 (as claimed): a stored entry that is published is never unpublished
\* later, whatever ingestions and publish_for_feed invocations interleave; in
\* particular an ingestion that looked its guid up as absent, before another
\* ingestion created the entry and a publisher published it, does not reset
\* it.
C5_PublishedIsMonotonic ==
    [][(\A p \in Procs : Local(p).op # "manual") =>
          \A e \in store : e.published =>
              \A x \in store' : x.key = e.key => x.published]_vars

\* C6 (as claimed): no entry is posted with a 200 more than once by
\* publish_for_feed, even when its invocations are interleaved.
C6_NoDoublePost ==
    \A g \in Guids : posted.sched[KeyForGuid(g)] <= 1

\* the entries whose publication time is in the window of w minutes ending at t
InWindow(s, t, w) ==
    {e \in s : /\ e.published /\ ~e.creating
               /\ e.published_at # None
               /\ t - w <= e.published_at /\ e.published_at <= t}

\* C7 (as claimed): with only publish_for_feed (skip_queue false) publishing,
\* in any order or interleaving, no rolling window of the feed's period holds
\* more publication times than the feed's effective maximum.
C7_WindowLimit ==
    (\A p \in Procs : Local(p).op # "manual" /\ ~Local(p).skip_queue) =>
        \A t \in Times :
            Cardinality(InWindow(store, t, minutes_schedule(feed)))
                <= max_stories(feed)

\* C8: no two stored entries of the feed share a guid, also when ingestions
\* that carry the same guid are interleaved.
C8_UniqueGuid ==
    \A e1 \in store, e2 \in store : e1.guid = e2.guid => e1 = e2

\* two interleaved ingestions both found the same guid new and both have
\* written their reservation for it
C8_Witness ==
    \E p \in Procs, q \in Procs, g \in Guids :
        /\ p # q
        /\ \E e \in Local(p).new_entries : e.guid = g
        /\ \E e \in Local(q).new_entries : e.guid = g
        /\ \E e \in store : e.guid = g

\* C9: publish_for_feed (skip_queue false) counts P, the published entries
\* whose publication time is within the period before now, attempts at most
\* max(0, M - P) entries, has the budget M when P = 0, and when M - P <= 0
\* attempts none and returns 0.
C9_Budget ==
    \A p \in Procs :
        LET l == Local(p)
            M == max_stories(l.feed)
            P == l.counted
        IN (Counted(l) /\ ~l.skip_queue) =>
             /\ (l.now = now /\ (l.pc = "pff_fetch" \/ ~Fetched(l))) =>
                    P = Cardinality(InWindow(store, now, minutes_schedule(l.feed)))
             /\ Len(l.entries) <= Max(0, M - P)
             /\ Len(l.resps) <= Len(l.entries)
             /\ P = 0 => l.budget = M
             /\ M - P <= 0 =>
                    /\ l.pc = "done"
                    /\ l.entries = <<>> /\ l.resps = <<>> /\ l.wrote = {}
                    /\ l.entries_posted = 0

\* a publish_for_feed that found P > 0 publications in the period and had
\* budget left has attempted its entries and completed
C9_Witness ==
    \E p \in Procs :
        LET l == Local(p)
        IN /\ Counted(l) /\ ~l.skip_queue /\ l.pc = "done"
           /\ l.counted > 0
           /\ l.budget > 0
           /\ Len(l.resps) = l.budget

\* every post of the handler was answered 200
AllAccepted(l) ==
    /\ Len(l.resps) = Len(l.entries)
    /\ \A k \in 1..Len(l.resps) : l.resps[k] = "200"

\* C10: with a budget B > 0, U eligible entries and every post answered 200,
\* publish_for_feed publishes exactly min(B, U) entries and returns that
\* number.
C10_PublishesMinBudgetEligible ==
    \A p \in Procs :
        LET l == Local(p)
            n == Min(l.budget, Cardinality(l.eligible))
        IN (Fetched(l) /\ l.pc = "done" /\ l.budget > 0 /\ AllAccepted(l)) =>
             /\ l.entries_posted = n
             /\ Cardinality(l.wrote) = n
             /\ \A k \in l.wrote :
                  /\ k \in {e.key : e \in l.eligible}
                  /\ posted.sched[k] > 0
                  /\ \A x \in Stored(k) : x.published /\ x.published_at # None

\* a publish_for_feed with more eligible entries than budget has completed
\* with every post answered 200
C10_Witness ==
    \E p \in Procs :
        LET l == Local(p)
        IN /\ Fetched(l) /\ l.pc = "done" /\ l.budget > 0 /\ AllAccepted(l)
           /\ Cardinality(l.eligible) > l.budget

\* C11 (as claimed): publish_for_feed with skip_queue and a remaining budget
\* <= 0 (zero or negative) fetches with a limit of exactly 1 and attempts
\* exactly one eligible entry when one exists.
C11_SkipQueueBudgetOne ==
    \A p \in Procs :
        LET l == Local(p)
        IN (Publishing(l) /\ l.skip_queue /\ l.budget <= 0
             /\ l.pc \in {"pe_post", "pe_put", "done"}) =>
             /\ FetchLimit(l.budget, l.skip_queue) = 1
             /\ Len(l.entries) = Min(1, Cardinality(l.eligible))

\* C12: no reservation (creating = true) is selected by latest_unpublished,
\* posted by publish_for_feed, counted in the window count of
\* latest_published, or marked by drain_queue.
C12_ReservationsAreInvisible ==
    /\ \A p \in Procs :
         LET l == Local(p)
         IN /\ (Publishing(l) \/ l.op = "drain") =>
                  \A k \in 1..Len(l.entries) : ~l.entries[k].creating
            /\ (Publishing(l) /\ l.pc = "pff_fetch") =>
                  l.counted = Cardinality(
                      InWindow(store, now, minutes_schedule(l.feed)))
    /\ \A e \in store :
         e.creating => /\ posted.sched[e.key] = 0
                       /\ e.overflow_reason # "FEED_OVERFLOW"

\* a publish cycle has published an entry, and a drain has marked one, while
\* the feed held an unpublished reservation and a reservation published
\* within the period
C12_Witness ==
    /\ \E e \in store : e.creating /\ ~e.published
    /\ \E e \in store : e.creating /\ e.published_at = now
    /\ \E p \in Procs :
         LET l == Local(p)
         IN /\ l.pc = "done" /\ l.wrote # {}
            /\ \/ Publishing(l) /\ LastResponse(l, "200")
               \/ l.op = "drain"

\* C13 (as claimed): no stored entry is both a reservation (creating = true)
\* and published, whatever ingestions, publish cycles and manual publications
\* have run.
C13_NoPublishedReservation ==
    \A e \in store : ~(e.creating /\ e.published)

\* the entry that publish_entry was last called for
LastEntry(l) == l.entries[Len(l.resps)]

\* publish_entry, called last for LastEntry(l), has written neither the entry
\* nor the feed
LeftUnchanged(l) ==
    /\ feed = l.feed
    /\ Stored(LastEntry(l).key) = {LastEntry(l)}
    /\ LastEntry(l).key \notin l.wrote
    /\ Publishing(l) => LastEntry(l) \in Unpublished(store)

\* C14: when the external API answers a status other than 200, 400 and 401,
\* publish_entry raises to its caller and leaves the entry and the feed as
\* they were; an entry of a publish cycle stays unpublished and eligible.
C14_UnexpectedStatusRaises ==
    \A p \in Procs :
        LET l == Local(p)
        IN LastResponse(l, "500") =>
             /\ l.pc = "done" /\ l.raised
             /\ LeftUnchanged(l)

\* a publish cycle and a manual publication can both be answered an
\* unexpected status; here a publish cycle was
C14_Witness ==
    \E p \in Procs :
        Publishing(Local(p)) /\ LastResponse(Local(p), "500")

\* C15: when the external POST fails or exceeds its deadline, publish_entry
\* returns without raising and without writing the entry or the feed; an
\* entry of a publish cycle is still returned by latest_unpublished.
C15_FailedPostLeavesEntry ==
    \A p \in Procs :
        LET l == Local(p)
        IN (LastResponse(l, "fail")
              /\ l.pc \in (IF Publishing(l) THEN {"pe_post", "done"}
                           ELSE {"fep_put"})) =>
             /\ ~l.raised
             /\ LeftUnchanged(l)

\* the POST of an entry of a publish cycle has failed and publish_entry has
\* returned
C15_Witness ==
    \E p \in Procs :
        LET l == Local(p)
        IN /\ Publishing(l) /\ LastResponse(l, "fail")
           /\ l.pc \in {"pe_post", "done"}

\* C16 (as claimed): within one publish_for_feed call, an unexpected status
\* for one selected entry does not keep the remaining selected entries from
\* being attempted: when the call is over every selected entry was posted.
C16_FatalFailureIsIsolated ==
    \A p \in Procs :
        LET l == Local(p)
        IN (Publishing(l) /\ l.pc = "done") => Len(l.resps) = Len(l.entries)

\* the number of posts of the call that the external API accepted
Accepted(l) == Cardinality({k \in 1..Len(l.resps) : l.resps[k] = "200"})

\* C18 (as claimed): the value publish_for_feed returns is the number of
\* entries it posted successfully (200) during the call.
C18_ReturnsAcceptedPosts ==
    \A p \in Procs :
        LET l == Local(p)
        IN (Publishing(l) /\ l.pc = "done" /\ ~l.raised) =>
             l.entries_posted = Accepted(l)

\* the number of futures of the batch that ended as `outcome`
Ended(l, outcome) ==
    Cardinality({k \in 1..Len(l.outcomes) : l.outcomes[k] = outcome})

\* C17: in the poll task and in the post-all job, the failure of one feed
\* keeps no other feed of the batch from being processed to completion, and
\* when the batch is finished success + errors is the number of its feeds.
C17_BatchIsolation ==
    \A p \in Procs :
        LET l == Local(p)
        IN (l.op \in {"poll_batch", "post_batch"} /\ l.pc = "done") =>
             /\ l.success + l.errors = Len(l.batch)
             /\ l.completed = {k \in 1..Len(l.batch) : l.batch[k]}
             /\ l.success = Ended(l, "ok")
             /\ l.errors = Ended(l, "raise") + Len(l.batch) - Len(l.futures)
             /\ ~l.raised

\* a batch is finished in which a feed failed and a later feed succeeded
C17_Witness ==
    \E p \in Procs :
        LET l == Local(p)
        IN /\ l.op \in {"poll_batch", "post_batch"} /\ l.pc = "done"
           /\ \E j, k \in 1..Len(l.outcomes) :
                j < k /\ l.outcomes[j] = "raise" /\ l.outcomes[k] = "ok"

\* the delete-feed request of handler p is over: the feed is deleted and the
\* deletes it issued are carried out
Deleted(l) == l.op = "delete" /\ l.pc = "done" /\ l.deleting = {}

\* C19 (as claimed): when the delete-feed operation is over, no entry of the
\* feed remains in the store, whatever its flags, reservations included.
C19_DeleteLeavesNoEntry ==
    \A p \in Procs : Deleted(Local(p)) => store = {}

\* C20 (as claimed): the store never holds an entry whose feed is deleted
\* (checked in the states where every delete that was issued is carried out).
C20_NoOrphanEntry ==
    (~feed.stored /\ \A p \in Procs : Local(p).deleting = {}) => store = {}

\* update_for_feed, called with publish=False, has returned after a fetch
\* that answered with status
Updated(l, status) ==
    /\ l.op = "update" /\ l.pc = "done" /\ ~l.raised
    /\ l.status = status /\ ~l.publish

\* the stored entries of the guids gs
EntriesOf(gs) == {e \in store : e.guid \in gs}

\* C21 (as claimed): when update_for_feed (overflow=false, publish=false) has
\* ingested a parsed feed of at least 5 guids that were all new, every entry
\* created for those guids is published, overflow, with reason FEED_OVERFLOW.
C21_AllNewIsDrained ==
    \A p \in Procs :
        LET l == Local(p)
        IN (/\ Updated(l, "200") /\ ~l.overflow
            /\ l.old_guids = {}
            /\ Cardinality(l.new_guids) >= DRAIN_THRESHOLD)
           => \A e \in EntriesOf(l.new_guids) :
                  /\ e.published /\ e.overflow
                  /\ e.overflow_reason = "FEED_OVERFLOW"

\* C24 (as claimed): once the fetch of update_for_feed has answered 304, no
\* step of the call creates or modifies an entry or changes the feed, whatever
\* the flags, and the call counts 0 new items.
C24_NotModifiedSkipsAll ==
    [][\A p \in Procs :
          (proc'[p].op = "update" /\ proc'[p].status = "304")
          => /\ store' = store
             /\ feed' = feed
             /\ proc'[p].num_new_items = 0]_vars

\* the fetch of the update_for_feed that handler l runs has raised
FetchRaised(l) ==
    \/ l.op = "poll" /\ l.raised
    \/ l.op = "update" /\ l.status = "raise"

\* C25: once the fetch has raised, no step of the handler creates or modifies
\* an entry or the feed and update_for_feed ends by raising; the poll task
\* counts one error and no success for the feed; and a feed the scheduled
\* poll of an interval selected is still selected by it.
C25_FetchFailureChangesNothing ==
    [][\A p \in Procs :
          FetchRaised(proc'[p])
          => /\ store' = store
             /\ feed' = feed
             /\ proc'[p].pc = "done"
             /\ proc'[p].num_new_items = 0
             /\ ((proc'[p].op = "poll" /\ proc'[p].completed # {})
                   => (proc'[p].errors = 1 /\ proc'[p].success = 0))
             /\ \A i \in {"MINUTE_5", "MINUTE_15"} :
                   (for_interval(feed, i) => for_interval(feed', i))]_vars

\* the poll task has counted a feed whose fetch raised, entries being stored
C25_Witness ==
    \E p \in Procs :
        /\ Local(p).op = "poll" /\ Local(p).raised
        /\ Local(p).completed # {}
        /\ Local(p).errors = 1
        /\ store # {}
        /\ for_interval(feed, "MINUTE_5")

\* the entry of guid g is eligible for publishing
Eligible(g) == \E e \in store : e.guid = g /\ ~e.published /\ ~e.creating

\* the entry of guid g is published or marked overflow
Handled(g) == \E e \in store : e.guid = g /\ (e.published \/ e.overflow)

\* C22 (as claimed): with the post-all job firing again and again, the
\* periods passing and every post accepted, an eligible entry is eventually
\* published or marked overflow, even while newer entries are ingested.
C22_NoStarvation ==
    \A g \in Guids : Eligible(g) ~> Handled(g)

\* the push that handler l serves is for a feed with a secret and carries no
\* signature or one that differs from the digest of its body
PushRejected(l) ==
    /\ l.op = "push"
    /\ l.feed.hub_secret # Unset
    /\ l.header # {hmac_hexdigest(l.feed.hub_secret, l.data)}

\* C23: a push whose signature does not match changes no entry and no feed
\* in any of its steps, never reaches publish_for_feed (it ends at once,
\* with nothing looked up, selected or posted), and is answered with ''.
C23_BadSignatureChangesNothing ==
    [][\A p \in Procs :
          PushRejected(proc'[p])
          => /\ store' = store
             /\ feed' = feed
             /\ proc'[p].pc = "done"
             /\ proc'[p].response = ""
             /\ proc'[p].guids = {} /\ proc'[p].new_entries = {}
             /\ proc'[p].entries = <<>> /\ proc'[p].resps = <<>>]_vars

\* a push of items with a signature made with another key was answered
C23_Witness ==
    \E p \in Procs :
        /\ PushRejected(Local(p))
        /\ Local(p).data # {}
        /\ Local(p).header = {hmac_hexdigest("other", Local(p).data)}
        /\ Local(p).response = ""

\* the hub.verify_token argument of the verification that handler l serves
TokenOf(l) == CHOOSE t \in l.data : TRUE

\* handler p answers a verification GET in this step
Verifies(p) == proc[p].pc = "idle" /\ proc'[p].op = "subscribe"

\* C28 (as claimed): the verification answers 400 "Failed Verification" and
\* leaves the feed unchanged when a hub.verify_token is supplied and differs
\* from the feed's; otherwise it answers the challenge and the feed is
\* subscribed_at_hub.
C28_SuppliedMismatchIs400 ==
    [][\A p \in Procs :
          Verifies(p)
          => IF /\ TokenOf(proc'[p]) # Unset
                /\ TokenOf(proc'[p]) # feed.verify_token
             THEN /\ proc'[p].response = "Failed Verification 400"
                  /\ feed' = feed
             ELSE /\ proc'[p].response = "challenge"
                  /\ feed'.subscribed_at_hub]_vars

\* C28 (amended): the verification answers 400 "Failed Verification" and
\* leaves the feed unchanged when a non-empty hub.verify_token is supplied
\* and differs from the feed's; otherwise (no token, an empty token, or the
\* feed's token) it answers the challenge and the feed is subscribed_at_hub.
C28_NonEmptyMismatchIs400 ==
    [][\A p \in Procs :
          Verifies(p)
          => IF /\ TokenOf(proc'[p]) \notin {Unset, ""}
                /\ TokenOf(proc'[p]) # feed.verify_token
             THEN /\ proc'[p].response = "Failed Verification 400"
                  /\ feed' = feed
             ELSE /\ proc'[p].response = "challenge"
                  /\ feed'.subscribed_at_hub]_vars

\* a verification with a wrong token was refused and the feed is not
\* subscribed
C28_Witness ==
    \E p \in Procs :
        /\ Local(p).op = "subscribe"
        /\ TokenOf(Local(p)) = "wrong"
        /\ Local(p).response = "Failed Verification 400"
        /\ ~feed.subscribed_at_hub

\* C27 (as claimed): a resubscription sweep that starts after the clearing
\* of the hub URL that a 402 caused was saved starts no subscribe_to_hub for
\* the feed, so it sends no subscribe request (no hub is discovered for a
\* feed that exists).
C27_NoSubscribeAfter402 ==
    \A p \in Procs :
        (Local(p).op = "resub" /\ Local(p).after_402)
        => (Local(p).pc = "done" /\ Local(p).futures = <<>>)

\* publish_entry has taken the branch of the feed without owner and has
\* returned, and the deletes it issued are carried out
OrphanHandled(l) ==
    /\ Publishing(l) /\ l.feed.parent = Unset
    /\ l.pc \in {"pe_post", "done"} /\ l.entries_posted > 0
    /\ l.deleting = {}

\* C26 (as claimed): when publish_entry has found the feed without owning
\* user and has returned, nothing was posted, no entry of the feed is left in
\* the store, the feed is deleted, and no entry was marked published by it.
C26_OrphanIsDeleted ==
    \A p \in Procs :
        OrphanHandled(Local(p))
        => /\ Local(p).resps = <<>>
           /\ \A g \in CallGuids : posted.sched[g] = 0
           /\ store = {}
           /\ ~feed.stored
           /\ Local(p).wrote = {}

\* the period and the limit the claim prescribes for the feed f
ClaimedPeriod(f) ==
    IF f.manual_control THEN f.schedule_period ELSE DEFAULT_PERIOD_SCHEDULE

ClaimedLimit(f) ==
    IF f.manual_control THEN f.max_stories_per_period ELSE MAX_STORIES_PER_PERIOD

\* C29: what publish_for_feed counted is what was published within the
\* stored schedule_period if manual_control is true and within the default
\* period otherwise (checked while the store is as it was counted), and its
\* budget is the stored max_stories_per_period if manual_control is true and
\* the default limit otherwise, less what it counted.
C29_StoredScheduleIffManual ==
    \A p \in Procs :
        LET l == Local(p)
        IN Counted(l) =>
             /\ l.budget = ClaimedLimit(l.feed) - l.counted
             /\ (l.now = now /\ (l.pc = "pff_fetch" \/ ~Fetched(l))) =>
                    l.counted = Cardinality(
                        latest_published(store, now - ClaimedPeriod(l.feed)))

\* publish_for_feed has counted for an automatic feed, and the stored period
\* would have counted more and the stored limit would have allowed more
C29_Witness ==
    \E p \in Procs :
        LET l == Local(p)
        IN /\ Counted(l) /\ l.pc = "pff_fetch" /\ l.now = now
           /\ ~l.feed.manual_control
           /\ l.feed.schedule_period # DEFAULT_PERIOD_SCHEDULE
           /\ l.feed.max_stories_per_period # MAX_STORIES_PER_PERIOD
           /\ Cardinality(latest_published(store, now - l.feed.schedule_period))
                  > l.counted

\* C30 (as claimed): no step of the Instagram push handler changes an entry
\* or a feed; when it has answered a push with a matching signature, the
\* poll queue holds one task with the keys of the Instagram feeds whose
\* user_id the body lists, or no task if there is no such feed; when the
\* signature does not match, the queue holds no task and the answer is ''.
C30_InstagramPushOnlyEnqueues ==
    [][\A p \in Procs :
          LET l == proc'[p]
              keys == InstagramFeedKeys(feed, l.data)
          IN l.op = "instagram"
             => /\ store' = store
                /\ feed' = feed
                /\ l.pc = "done" =>
                     IF l.header = {hmac_hexdigest("instagram_client_secret", l.data)}
                     THEN posted'.tasks = IF keys = {} THEN <<>> ELSE <<keys>>
                     ELSE posted'.tasks = <<>> /\ l.response = ""]_vars

\* an ingestion that found g new at its lookup has not yet written its
\* second put_multi_async
Ingesting(g) ==
    \E p \in Procs : /\ Local(p).pc \in {"ppf_reserve", "ppf_save"}
                     /\ g \in Local(p).new_guids

\* e is a reservation that its ingestion left uncommitted: enrichment
\* yielded nothing for the item
LeftUncommitted(e) == e.creating /\ ~Ingesting(e.guid)

\* the handler p starts process_parsed_feed in this step
StartsIngestion(p) ==
    /\ Local(p).pc = "idle"
    /\ proc[p]'.op \in {"poll", "push", "update"}
    /\ proc[p]'.pc = "ppf_reserve"

\* C31: an entry left with creating = true because enrichment yielded
\* nothing stays stored with creating = true: every ingestion that starts
\* later and carries its guid classifies the guid as old, not as new, so no
\* step enriches, replaces or removes the entry, and latest_unpublished never
\* selects it.
C31_UncommittedStaysUncommitted ==
    [][\A e \in store :
          LeftUncommitted(e) =>
             /\ \A p \in Procs :
                  (StartsIngestion(p) /\ e.guid \in proc[p]'.guids) =>
                      /\ e.guid \in proc[p]'.old_guids
                      /\ e.guid \notin proc[p]'.new_guids
             /\ \E x \in store' : x.key = e.key /\ x.creating
             /\ ~Ingesting(e.guid)'
             /\ \A x \in Unpublished(store') : x.key # e.key]_vars

\* an ingestion left the reservation of a guid uncommitted, and a later
\* ingestion that carried the same guid has run to its end
C31_Witness ==
    \E g \in Guids, p \in Procs :
        /\ \E e \in store : e.guid = g /\ LeftUncommitted(e)
        /\ g \in Local(p).old_guids
        /\ Local(p).op \in {"poll", "push"}
        /\ Local(p).pc \notin {"idle", "ppf_reserve", "ppf_save"}

\* ------------------------------------------- the same feed ingested twice
\* An entry as earlier requests can have left it: a reservation, ingested,
\* ingested as overflow, published by publish_entry after a 200 or a 400,
\* or drained.
EntryStates(g) ==
    LET e == NewEntry(g, 0)
        ingested == [e EXCEPT !.creating = FALSE]
    IN {e, ingested, Populate(e, TRUE, "BACKLOG", TRUE),
        Published(ingested, "200", 0), Published(ingested, "400", 0),
        Drained(ingested)}

\* the stores that hold at most one entry per guid, each in one of its states
RECURSIVE StoresOver(_)
StoresOver(gs) ==
    IF gs = {} THEN {{}}
    ELSE LET g == CHOOSE x \in gs : TRUE
             rest == StoresOver(gs \ {g})
         IN rest \cup {s \cup {e} : s \in rest, e \in EntryStates(g)}

InitReingest ==
    /\ store \in StoresOver(Guids)
    /\ feed \in {FeedConfig(m) : m \in BOOLEAN}
    /\ now = MaxTime
    /\ proc = [p \in Procs |-> Idle]
    /\ posted = [sched |-> [g \in Guids |-> 0], manual |-> {}]
    /\ requests = 0

\* The poll task ingests the feed; once its process_parsed_feed has
\* returned, the next request (a poll or a push) ingests a feed again.
NextReingest ==
    \/ tq_feed_poll("r1")
    \/ ppf_reserve("r1")
    \/ ppf_save("r1")
    \/ At("r1", "done") /\ tq_feed_poll("r2")
    \/ At("r1", "done") /\ feed_push_update("r2")
    \/ ppf_reserve("r2")
    \/ ppf_save("r2")

SpecReingest == InitReingest /\ [][NextReingest]_vars

\* process_parsed_feed of handler p has run on the parsed feed gs and
\* returned, and nothing has run since
Returned(p, gs) ==
    /\ Local(p).op = "poll" /\ Local(p).pc = "done" /\ ~Local(p).raised
    /\ Local(p).guids = gs

\* the handler is inside process_parsed_feed, or has just returned from it
InProcessParsedFeed(l) ==
    /\ l.op \in {"poll", "push"}
    /\ l.pc \in {"ppf_reserve", "ppf_save", "pff_count", "done"}
    /\ l.response = Unset /\ ~l.raised

\* C32: process_parsed_feed run a second time on the same parsed feed, with
\* nothing in between, finds no new guid, returns every distinct guid of the
\* feed as old, and none of its steps changes a stored entry.
C32_ReingestionIsNoOp ==
    [][\A gs \in SUBSET Guids :
          (Returned("r1", gs) /\ InProcessParsedFeed(proc["r2"]')
             /\ proc["r2"]'.guids = gs) =>
             /\ proc["r2"]'.new_guids = {}
             /\ proc["r2"]'.old_guids = gs
             /\ proc["r2"]'.new_entries = {}
             /\ store' = store]_vars

\* a feed that carries a new item and an item whose entry is stored as
\* published was ingested, and the second process_parsed_feed on the same
\* feed has returned
C32_Witness ==
    /\ Returned("r1", Local("r1").guids)
    /\ Local("r1").new_guids # {}
    /\ \E e \in store : e.guid \in Local("r1").old_guids /\ e.published
    /\ InProcessParsedFeed(Local("r2"))
    /\ Local("r2").guids = Local("r1").guids
    /\ Local("r2").pc \in {"pff_count", "done"}

\* --------------------------------------------------- when a drain runs
\* One call of update_for_feed, or one push of a body of any size.
NextDrain ==
    \/ NextUpdate
    \/ push_update_of("r1", ParsedFeeds)

SpecDrain == InitUpdate /\ [][NextDrain]_vars

\* the handler has decided to drain, is draining or has drained
Drains(l) == l.drain_queue \/ l.pc \in {"drain", "drain_put"} \/ l.op = "drain"

\* the handler runs update_for_feed, its fetch was not answered 304, and
\* process_parsed_feed found at least 5 guids, none of them stored
AllNewFetch(l) ==
    /\ l.op \in {"update", "poll"}
    /\ l.op = "update" => l.status = "200"
    /\ ~l.raised
    /\ l.old_guids = {}
    /\ l.new_guids = l.guids
    /\ Cardinality(l.guids) >= DRAIN_THRESHOLD

\* C33: a handler drains only in update_for_feed after a fetch that was not
\* a 304 and carried at least 5 guids, none of them stored; in every other
\* case (fewer guids, a known guid, a 304, a push) no entry carries the mark
\* of a drain.
C33_DrainOnlyWhenAllNew ==
    /\ \A p \in Procs : Drains(Local(p)) => AllNewFetch(Local(p))
    /\ (\E e \in store : e.overflow_reason = "FEED_OVERFLOW") =>
          \E p \in Procs : AllNewFetch(Local(p)) /\ Local(p).wrote # {}

\* update_for_feed has drained after a fetch of 5 new guids, and the drain
\* has marked an entry that was stored before
C33_Witness ==
    \E p \in Procs :
        LET l == Local(p)
        IN /\ l.pc = "done" /\ l.drain_queue /\ AllNewFetch(l)
           /\ \E e \in store : /\ e.guid \notin l.guids
                               /\ e.published /\ e.overflow
                               /\ e.overflow_reason = "FEED_OVERFLOW"

\* ------------------------------------------- the reauthorization sweep
\* Here `feed` holds the stored Feed entities of all users, in key order.
Users == {"user", "other"}

\* Feed.status is an IntegerProperty: ACTIVE, NEEDS_REAUTH, or another value
\* of FEED_STATE (a disabled feed)
StoredStates == FEED_STATES \cup {"INACTIVE"}

\* cls.query(ancestor=user.key): the keys of the user's feeds
FeedsOfUser(f, user) ==
    LET Owned(k) == f[k].parent = user
    IN SelectSeq([k \in 1..Len(f) |-> k], Owned)

\* Feed.reauthorize(user): the query iterator over the feeds of the user.
\* needs_reauth is the truth value of the constant FEED_STATE.NEEDS_REAUTH
\* (an integer of constants.py: zero or not), which the loop tests.
reauthorize(p) ==
    /\ At(p, "idle")
    /\ requests < MaxRequests
    /\ requests' = requests + 1
    /\ \E user \in Users, needs_reauth \in BOOLEAN :
         LET keys == FeedsOfUser(feed, user)
         IN SetLocal(p, [Idle EXCEPT
                !.op = "reauthorize", !.user = user,
                !.needs_reauth = needs_reauth,
                !.batch = keys,
                !.entries = [k \in 1..Len(keys) |-> feed[keys[k]]],
                !.i = IF keys = <<>> THEN 0 ELSE 1,
                !.pc = IF keys = <<>> THEN "done" ELSE "reauthorize_put"])
    /\ UNCHANGED <<store, feed, now, posted>>

\* reauthorize: feed = qit.next(); `if FEED_STATE.NEEDS_REAUTH:` the feed is
\* set to ACTIVE and put; then the next feed or the end
reauthorize_put(p) ==
    LET l == Local(p)
        k == l.batch[l.i]
        f == [l.entries[l.i] EXCEPT !.status = "ACTIVE"]
    IN /\ At(p, "reauthorize_put")
       /\ feed' = IF l.needs_reauth THEN [feed EXCEPT ![k] = f] ELSE feed
       /\ SetLocal(p, [l EXCEPT
               !.wrote = IF l.needs_reauth THEN @ \cup {k} ELSE @,
               !.i = IF l.i < Len(l.batch) THEN @ + 1 ELSE @,
               !.pc = IF l.i < Len(l.batch) THEN "reauthorize_put" ELSE "done"])
       /\ UNCHANGED <<store, now, posted, requests>>

InitReauth ==
    /\ store = {}
    /\ feed \in [1..MaxFeeds ->
                   {[FeedConfig(FALSE) EXCEPT !.parent = u, !.status = s] :
                       u \in Users, s \in StoredStates}]
    /\ now = 0
    /\ proc = [p \in Procs |-> Idle]
    /\ posted = [sched |-> [g \in Guids |-> 0], manual |-> {}]
    /\ requests = MaxRequests - 1

\* One sweep.
NextReauth ==
    \/ reauthorize("r1")
    \/ reauthorize_put("r1")

SpecReauth == InitReauth /\ [][NextReauth]_vars

\* the handler's sweep of the feeds of its user has returned in this step
SweepReturns(p) ==
    /\ Local(p).op = "reauthorize" \/ proc[p]'.op = "reauthorize"
    /\ Local(p).pc # "done" /\ proc[p]'.pc = "done"

\* C34 (as claimed): a step of reauthorize(user) changes the status of a feed
\* only if the feed is one of the user's and is in NEEDS_REAUTH, and then to
\* ACTIVE; when the sweep returns, none of the user's feeds is left in
\* NEEDS_REAUTH.
C34_SweepChangesOnlyNeedsReauth ==
    [][\A p \in Procs :
          /\ \A k \in DOMAIN feed :
               feed[k]'.status # feed[k].status =>
                   /\ feed[k].parent = Local(p).user
                   /\ feed[k].status = "NEEDS_REAUTH"
                   /\ feed[k]'.status = "ACTIVE"
          /\ SweepReturns(p) =>
               \A k \in DOMAIN feed :
                   feed[k]'.parent = proc[p]'.user =>
                       feed[k]'.status # "NEEDS_REAUTH"]_vars

====
